---- MODULE Spec2Model ----
(***************************************************************************)
(* A model of pyowm.stationsapi30.stations_manager.StationsManager.        *)
(*                                                                         *)
(* Python values are tagged records: None, str and int.  A dict is the set *)
(* of its <<key, value>> items.  Each public method is one action, except  *)
(* the two batch senders, whose loop body (one POST) is a step of its own. *)
(* The HTTP client is the environment: every call it receives is appended  *)
(* to `log`, and it either answers or raises one of TransportErrors.       *)
(***************************************************************************)
EXTENDS Integers, Sequences, FiniteSets, TLC

\* ------------------------------------------------------------------ bounds
\* Longest list of measurements / longest response list.
MaxLen == 2
\* Largest Unix timestamp passed to get_measurements.
MaxTs == 2

\* ------------------------------------------------------------ Python values
None == [tag |-> "None"]
PyStr(s) == [tag |-> "str", s |-> s]
PyInt(n) == [tag |-> "int", v |-> n]
PyList(items) == [tag |-> "list", items |-> items]

Digit(d) == <<"0", "1", "2", "3", "4", "5", "6", "7", "8", "9">>[d + 1]

RECURSIVE NatStr(_)
NatStr(n) == IF n < 10 THEN Digit(n) ELSE NatStr(n \div 10) \o Digit(n % 10)

\* Python's str(): the text of a value.
Str(x) ==
  CASE x.tag = "None" -> "None"
    [] x.tag = "str" -> x.s
    [] x.tag = "int" -> IF x.v < 0 THEN "-" \o NatStr(-x.v) ELSE NatStr(x.v)

\* isinstance(x, int)
IsInstanceInt(x) == x.tag = "int"

\* ------------------------------------------------------------ collaborators
\* Errors the HTTP client may raise.
TransportErrors == {"APICallError", "ConnectionError"}

\* Station: the domain object the manager sends and the parser returns.
Station(id, external_id, name, lat, lon, alt) ==
  [tag |-> "Station", id |-> id, external_id |-> external_id, name |-> name,
   lat |-> lat, lon |-> lon, alt |-> alt]

\* Measurement: station_id, timestamp and one reading.
Measurement(station_id, timestamp, temperature) ==
  [tag |-> "Measurement", station_id |-> station_id, timestamp |-> timestamp,
   temperature |-> temperature]

\* Measurement.to_dict(): the flat key/value body that is posted.
ToDict(m) ==
  {<<"station_id", m.station_id>>, <<"timestamp", m.timestamp>>,
   <<"temperature", m.temperature>>}

\* Buffer: an ordered collection of measurements; iterating yields them in order.
Buffer(measurements) == [tag |-> "Buffer", measurements |-> measurements]

\* The value of key k in the dict d (None when absent, as dict.get).
DictGet(d, k) ==
  IF \E p \in d : p[1] = k THEN (CHOOSE p \in d : p[1] = k)[2] ELSE None

\* StationParser.parse_dict: a decoded JSON object to a Station.
StationParseDict(item) ==
  Station(DictGet(item, "id"), DictGet(item, "external_id"), DictGet(item, "name"),
          DictGet(item, "latitude"), DictGet(item, "longitude"),
          DictGet(item, "altitude"))

\* AggregatedMeasurementParser.parse_dict.
AggregatedParseDict(item) ==
  [tag |-> "AggregatedMeasurement", station_id |-> DictGet(item, "station_id"),
   timestamp |-> DictGet(item, "date"), aggregated_on |-> DictGet(item, "type")]

\* ------------------------------------------------------------------ inputs
ApiKeys == {None, PyStr("key1"), PyStr("key2")}
StationIds == {None, PyStr("s1"), PyInt(7)}
Stations ==
  {Station(id, PyStr("ext"), PyStr("name"), PyInt(45), PyInt(9), alt) :
     id \in StationIds, alt \in {None, PyInt(100)}}
OptStrs == {None, PyStr("x")}
Lats == {None, PyInt(-91), PyInt(-90), PyInt(0), PyInt(90), PyInt(91)}
Lons == {None, PyInt(-181), PyInt(-180), PyInt(0), PyInt(180), PyInt(181)}
Alts == {None, PyInt(-1), PyInt(0), PyInt(1)}
Measurements ==
  {Measurement(None, PyInt(1), PyInt(10)), Measurement(PyStr("s1"), PyInt(1), PyInt(10)),
   Measurement(PyStr("s1"), PyInt(2), PyInt(20))}
SeqsUpTo(S, n) == UNION {[1..k -> S] : k \in 0..n}
MeasurementLists == SeqsUpTo(Measurements, MaxLen)
Timestamps == {None} \cup {PyInt(t) : t \in 0..MaxTs}
Limits == {None, PyInt(-1), PyInt(0), PyInt(1), PyStr("10")}
Granularities == {None, PyStr("h")}

\* Decoded JSON objects the service answers with.
RawStations ==
  {{<<"id", PyStr(i)>>, <<"external_id", PyStr("ext")>>, <<"name", PyStr("name")>>,
    <<"latitude", PyInt(45)>>, <<"longitude", PyInt(9)>>} : i \in {"s1", "s2"}}
RawAggregated ==
  {{<<"station_id", PyStr("s1")>>, <<"date", PyInt(d)>>, <<"type", PyStr("h")>>} :
     d \in {1}}

\* ------------------------------------------------------------------- state
VARIABLES
  manager,   \* TRUE once a StationsManager object exists
  API_key,   \* self.API_key
  given,     \* the API_key argument of the constructor call that built it
  call,      \* the last method call: its name and arguments
  status,    \* "idle" | "running" | "returned" | "raised"
  error,     \* the exception a raised call ended with
  result,    \* the value a returned call gave
  log,       \* the HTTP client calls made by the last method call, in order,
             \* each with how it ended: the body answered, or the error raised
  todo,      \* the sequence a running batch loop iterates
  idx        \* the loop's position in todo: the next item to post

vars == <<manager, API_key, given, call, status, error, result, log, todo, idx>>

STATIONS_URL == "http://api.openweathermap.org/data/3.0/stations"
MEASUREMENTS_URL == "http://api.openweathermap.org/data/3.0/measurements"
JSON_HEADERS == {<<"Content-Type", "application/json">>}

Init ==
  /\ manager = FALSE
  /\ API_key = None
  /\ given = None
  /\ call = [op |-> "none"]
  /\ status = "idle"
  /\ error = "none"
  /\ result = None
  /\ log = <<>>
  /\ todo = <<>>
  /\ idx = 0

\* A call that ends at once: by raising (err # "none") or by returning res.
Finish(c, entries, err, res) ==
  /\ call' = c
  /\ log' = entries
  /\ status' = IF err = "none" THEN "returned" ELSE "raised"
  /\ error' = err
  /\ result' = IF err = "none" THEN res ELSE None
  /\ todo' = <<>>
  /\ idx' = 0

\* A method can be called when no call is in progress.
CanCall == manager /\ status # "running"

\* One HTTP client call and how it ended.
Entry(req, raised, body) == [req |-> req, raised |-> raised, body |-> body]

\* -------------------------------------------------------------- constructor
\* A constructor whose assertion is missing.
InitCheckMissing(key) == "none"

\* The exception __init__ raises for this argument ("none": it constructs).
InitCheck(key) == IF key = None THEN "AssertionError" ELSE "none"

New(key) ==
  /\ ~manager
  /\ IF InitCheck(key) # "none"
       THEN /\ UNCHANGED <<manager, API_key, given>>
            /\ Finish([op |-> "__init__", API_key |-> key], <<>>, InitCheck(key), None)
       ELSE /\ manager' = TRUE
            /\ API_key' = key
            /\ given' = key
            /\ Finish([op |-> "__init__", API_key |-> key], <<>>, "none", None)

\* ----------------------------------------------------------------- stations
\* A comprehension that walks the response backwards.
ParseStationsReversed(data) ==
  [i \in 1..Len(data) |-> StationParseDict(data[Len(data) + 1 - i])]

\* The list comprehension of get_stations over the response.
ParseStations(data) == [i \in 1..Len(data) |-> StationParseDict(data[i])]

GetStationsRequest ==
  [method |-> "GET", url |-> STATIONS_URL, params |-> {<<"appid", API_key>>},
   headers |-> JSON_HEADERS]

get_stations ==
  /\ CanCall
  /\ UNCHANGED <<manager, API_key, given>>
  /\ \/ \E data \in SeqsUpTo(RawStations, MaxLen) :
          Finish([op |-> "get_stations"],
                 <<Entry(GetStationsRequest, "none", PyList(data))>>,
                 "none", PyList(ParseStations(data)))
     \/ \E e \in TransportErrors :
          Finish([op |-> "get_stations"],
                 <<Entry(GetStationsRequest, e, None)>>, e, None)

\* 'http://api.openweathermap.org/data/3.0/stations/%s' % str(id)
StationUrl(id) == STATIONS_URL \o "/" \o Str(id)

GetStationRequest(id) ==
  [method |-> "GET", url |-> StationUrl(id), params |-> {<<"appid", API_key>>},
   headers |-> JSON_HEADERS]

get_station(id) ==
  /\ CanCall
  /\ UNCHANGED <<manager, API_key, given>>
  /\ \/ \E data \in RawStations :
          Finish([op |-> "get_station", id |-> id],
                 <<Entry(GetStationRequest(id), "none", data)>>,
                 "none", StationParseDict(data))
     \/ \E e \in TransportErrors :
          Finish([op |-> "get_station", id |-> id],
                 <<Entry(GetStationRequest(id), e, None)>>, e, None)

\* Range checks that reject the boundary values (<= and >= for < and >).
CreateStationCheckExclusive(external_id, name, lat, lon, alt) ==
  IF external_id = None THEN "AssertionError"
  ELSE IF name = None THEN "AssertionError"
  ELSE IF lon = None THEN "AssertionError"
  ELSE IF lat = None THEN "AssertionError"
  ELSE IF lon.v <= -180 \/ lon.v >= 180 THEN "ValueError"
  ELSE IF lat.v <= -90 \/ lat.v >= 90 THEN "ValueError"
  ELSE IF alt # None /\ alt.v <= 0 THEN "ValueError"
  ELSE "none"

\* The exception create_station raises before its POST ("none": it posts).
CreateStationCheck(external_id, name, lat, lon, alt) ==
  IF external_id = None THEN "AssertionError"
  ELSE IF name = None THEN "AssertionError"
  ELSE IF lon = None THEN "AssertionError"
  ELSE IF lat = None THEN "AssertionError"
  ELSE IF lon.v < -180 \/ lon.v > 180 THEN "ValueError"
  ELSE IF lat.v < -90 \/ lat.v > 90 THEN "ValueError"
  ELSE IF alt # None /\ alt.v < 0 THEN "ValueError"
  ELSE "none"

\* dict(external_id=..., name=..., lat=..., lon=..., alt=...)
StationBody(external_id, name, lat, lon, alt) ==
  {<<"external_id", external_id>>, <<"name", name>>, <<"lat", lat>>,
   <<"lon", lon>>, <<"alt", alt>>}

CreateStationRequest(external_id, name, lat, lon, alt) ==
  [method |-> "POST", url |-> STATIONS_URL, params |-> {<<"appid", API_key>>},
   data |-> StationBody(external_id, name, lat, lon, alt),
   headers |-> JSON_HEADERS]

create_station(external_id, name, lat, lon, alt) ==
  LET c == [op |-> "create_station", external_id |-> external_id, name |-> name,
            lat |-> lat, lon |-> lon, alt |-> alt]
      chk == CreateStationCheck(external_id, name, lat, lon, alt)
      req == CreateStationRequest(external_id, name, lat, lon, alt)
  IN /\ CanCall
     /\ UNCHANGED <<manager, API_key, given>>
     /\ IF chk # "none"
          THEN Finish(c, <<>>, chk, None)
          ELSE \/ \E payload \in RawStations :
                    Finish(c, <<Entry(req, "none", payload)>>, "none",
                           StationParseDict(payload))
               \/ \E e \in TransportErrors :
                    Finish(c, <<Entry(req, e, None)>>, e, None)

\* update_station without its assertion.
UpdateStationCheckMissing(station) == "none"

\* The exception update_station raises before its PUT.
UpdateStationCheck(station) ==
  IF station.id = None THEN "AssertionError" ELSE "none"

UpdateStationRequest(station) ==
  [method |-> "PUT", url |-> StationUrl(station.id),
   params |-> {<<"appid", API_key>>},
   data |-> StationBody(station.external_id, station.name, station.lat,
                        station.lon, station.alt),
   headers |-> JSON_HEADERS]

update_station(station) ==
  LET c == [op |-> "update_station", station |-> station]
      chk == UpdateStationCheck(station)
      req == UpdateStationRequest(station)
  IN /\ CanCall
     /\ UNCHANGED <<manager, API_key, given>>
     /\ IF chk # "none"
          THEN Finish(c, <<>>, chk, None)
          ELSE \E e \in {"none"} \cup TransportErrors :
                 Finish(c, <<Entry(req, e, None)>>, e, None)

\* The exception delete_station raises before its DELETE.
DeleteStationCheck(station) ==
  IF station.id = None THEN "AssertionError" ELSE "none"

DeleteStationRequest(station) ==
  [method |-> "DELETE", url |-> StationUrl(station.id),
   params |-> {<<"appid", API_key>>}, headers |-> JSON_HEADERS]

delete_station(station) ==
  LET c == [op |-> "delete_station", station |-> station]
      chk == DeleteStationCheck(station)
      req == DeleteStationRequest(station)
  IN /\ CanCall
     /\ UNCHANGED <<manager, API_key, given>>
     /\ IF chk # "none"
          THEN Finish(c, <<>>, chk, None)
          ELSE \E e \in {"none"} \cup TransportErrors :
                 Finish(c, <<Entry(req, e, None)>>, e, None)

\* ------------------------------------------------------------- measurements
\* The POST of one measurement's field map.
MeasurementRequest(msmt) ==
  [method |-> "POST", url |-> MEASUREMENTS_URL,
   params |-> {<<"appid", API_key>>}, data |-> ToDict(msmt),
   headers |-> JSON_HEADERS]

\* The exception send_measurement raises before its POST.
SendMeasurementCheck(measurement) ==
  IF measurement = None THEN "AssertionError"
  ELSE IF measurement.station_id = None THEN "AssertionError"
  ELSE "none"

send_measurement(measurement) ==
  LET c == [op |-> "send_measurement", measurement |-> measurement]
      chk == SendMeasurementCheck(measurement)
  IN /\ CanCall
     /\ UNCHANGED <<manager, API_key, given>>
     /\ IF chk # "none"
          THEN Finish(c, <<>>, chk, None)
          ELSE \E e \in {"none"} \cup TransportErrors :
                 Finish(c, <<Entry(MeasurementRequest(measurement), e, None)>>,
                        e, None)

\* A call that enters its loop over items (or returns at once when there are none).
StartLoop(c, items) ==
  IF items = <<>>
    THEN Finish(c, <<>>, "none", None)
    ELSE /\ call' = c
         /\ log' = <<>>
         /\ status' = "running"
         /\ error' = "none"
         /\ result' = None
         /\ todo' = items
         /\ idx' = 1

\* A check with any() for all(): one good element lets the list through.
SendMeasurementsCheckAny(list_of_measurements) ==
  IF list_of_measurements = None THEN "AssertionError"
  ELSE IF ~(\E i \in 1..Len(list_of_measurements.items) :
               list_of_measurements.items[i].station_id # None)
    THEN "AssertionError"
  ELSE "none"

\* The exception send_measurements raises before its loop.
SendMeasurementsCheck(list_of_measurements) ==
  IF list_of_measurements = None THEN "AssertionError"
  ELSE IF ~(\A i \in 1..Len(list_of_measurements.items) :
               list_of_measurements.items[i].station_id # None)
    THEN "AssertionError"
  ELSE "none"

send_measurements(list_of_measurements) ==
  LET c == [op |-> "send_measurements", list_of_measurements |-> list_of_measurements]
      chk == SendMeasurementsCheck(list_of_measurements)
  IN /\ CanCall
     /\ UNCHANGED <<manager, API_key, given>>
     /\ IF chk # "none"
          THEN Finish(c, <<>>, chk, None)
          ELSE StartLoop(c, list_of_measurements.items)

\* A loop that swallows the client's exception and goes on to the next item.
SendMeasurementsAfterPostSwallow(raised, i, n) ==
  IF i = n THEN "returned" ELSE "running"

\* How the loop of send_measurements goes on after the POST of item i of n that
\* ended with `raised`: nothing catches the client's exception.
SendMeasurementsAfterPost(raised, i, n) ==
  IF raised # "none" THEN "raised" ELSE IF i = n THEN "returned" ELSE "running"

\* One turn of a batch loop: POST item idx, then go on as `after` says.
LoopStep(raised, after) ==
  /\ log' = Append(log, Entry(MeasurementRequest(todo[idx]), raised, None))
  /\ status' = after
  /\ error' = IF after = "raised" THEN raised ELSE "none"
  /\ idx' = IF after = "running" THEN idx + 1 ELSE 0
  /\ todo' = IF after = "running" THEN todo ELSE <<>>
  /\ UNCHANGED <<manager, API_key, given, call, result>>

send_measurements_post ==
  /\ status = "running"
  /\ call.op = "send_measurements"
  /\ \E raised \in {"none"} \cup TransportErrors :
       LoopStep(raised, SendMeasurementsAfterPost(raised, idx, Len(todo)))

\* The exception send_buffer raises before its loop.
SendBufferCheck(buffer) == IF buffer = None THEN "AssertionError" ELSE "none"

\* An iteration that skips the first measurement of the buffer.
SendBufferItemsSkipFirst(buffer) ==
  IF buffer.measurements = <<>> THEN <<>> ELSE Tail(buffer.measurements)

\* for msmt in buffer: the items the loop visits, in order.
SendBufferItems(buffer) == buffer.measurements

send_buffer(buffer) ==
  LET c == [op |-> "send_buffer", buffer |-> buffer]
      chk == SendBufferCheck(buffer)
  IN /\ CanCall
     /\ UNCHANGED <<manager, API_key, given>>
     /\ IF chk # "none"
          THEN Finish(c, <<>>, chk, None)
          ELSE StartLoop(c, SendBufferItems(buffer))

\* As SendMeasurementsAfterPost, for the loop of send_buffer.
SendBufferAfterPost(raised, i, n) ==
  IF raised # "none" THEN "raised" ELSE IF i = n THEN "returned" ELSE "running"

send_buffer_post ==
  /\ status = "running"
  /\ call.op = "send_buffer"
  /\ \E raised \in {"none"} \cup TransportErrors :
       LoopStep(raised, SendBufferAfterPost(raised, idx, Len(todo)))

\* A window check that also rejects to_timestamp = from_timestamp.
GetMeasurementsCheckStrict(station_id, aggregated_on, from_timestamp, to_timestamp, limit) ==
  IF station_id = None THEN "AssertionError"
  ELSE IF aggregated_on = None THEN "AssertionError"
  ELSE IF from_timestamp = None THEN "AssertionError"
  ELSE IF ~(from_timestamp.v > 0) THEN "AssertionError"
  ELSE IF to_timestamp = None THEN "AssertionError"
  ELSE IF ~(to_timestamp.v > 0) THEN "AssertionError"
  ELSE IF to_timestamp.v <= from_timestamp.v THEN "ValueError"
  ELSE IF limit # None /\ ~IsInstanceInt(limit) THEN "AssertionError"
  ELSE IF limit # None /\ ~(limit.v >= 0) THEN "AssertionError"
  ELSE "none"

\* The exception get_measurements raises before its GET.
GetMeasurementsCheck(station_id, aggregated_on, from_timestamp, to_timestamp, limit) ==
  IF station_id = None THEN "AssertionError"
  ELSE IF aggregated_on = None THEN "AssertionError"
  ELSE IF from_timestamp = None THEN "AssertionError"
  ELSE IF ~(from_timestamp.v > 0) THEN "AssertionError"
  ELSE IF to_timestamp = None THEN "AssertionError"
  ELSE IF ~(to_timestamp.v > 0) THEN "AssertionError"
  ELSE IF to_timestamp.v < from_timestamp.v THEN "ValueError"
  ELSE IF limit # None /\ ~IsInstanceInt(limit) THEN "AssertionError"
  ELSE IF limit # None /\ ~(limit.v >= 0) THEN "AssertionError"
  ELSE "none"

\* A query built with "if limit:" for "if limit is not None:": limit 0 is dropped.
GetMeasurementsQueryTruthy(station_id, aggregated_on, from_timestamp, to_timestamp, limit) ==
  {<<"appid", API_key>>, <<"station_id", station_id>>, <<"type", aggregated_on>>,
   <<"from", from_timestamp>>, <<"to", to_timestamp>>}
  \cup (IF limit # None /\ limit.v # 0 THEN {<<"limit", limit>>} ELSE {})

\* The query dict of get_measurements.
GetMeasurementsQuery(station_id, aggregated_on, from_timestamp, to_timestamp, limit) ==
  {<<"appid", API_key>>, <<"station_id", station_id>>, <<"type", aggregated_on>>,
   <<"from", from_timestamp>>, <<"to", to_timestamp>>}
  \cup (IF limit # None THEN {<<"limit", limit>>} ELSE {})

\* The list comprehension of get_measurements over the response.
ParseAggregated(data) == [i \in 1..Len(data) |-> AggregatedParseDict(data[i])]

get_measurements(station_id, aggregated_on, from_timestamp, to_timestamp, limit) ==
  LET c == [op |-> "get_measurements", station_id |-> station_id,
            aggregated_on |-> aggregated_on, from_timestamp |-> from_timestamp,
            to_timestamp |-> to_timestamp, limit |-> limit]
      chk == GetMeasurementsCheck(station_id, aggregated_on, from_timestamp,
                                  to_timestamp, limit)
      req == [method |-> "GET", url |-> MEASUREMENTS_URL,
              params |-> GetMeasurementsQuery(station_id, aggregated_on,
                                              from_timestamp, to_timestamp, limit),
              headers |-> JSON_HEADERS]
  IN /\ CanCall
     /\ UNCHANGED <<manager, API_key, given>>
     /\ IF chk # "none"
          THEN Finish(c, <<>>, chk, None)
          ELSE \/ \E data \in SeqsUpTo(RawAggregated, MaxLen) :
                    Finish(c, <<Entry(req, "none", PyList(data))>>, "none",
                           PyList(ParseAggregated(data)))
               \/ \E e \in TransportErrors :
                    Finish(c, <<Entry(req, e, None)>>, e, None)

\* ------------------------------------------------------------ specification
Next ==
  \/ \E key \in ApiKeys : New(key)
  \/ get_stations
  \/ \E id \in StationIds : get_station(id)
  \/ \E external_id \in OptStrs, name \in OptStrs, lat \in Lats, lon \in Lons,
        alt \in Alts : create_station(external_id, name, lat, lon, alt)
  \/ \E station \in Stations : update_station(station)
  \/ \E station \in Stations : delete_station(station)
  \/ \E measurement \in {None} \cup Measurements : send_measurement(measurement)
  \/ \E l \in {None} \cup {PyList(s) : s \in MeasurementLists} : send_measurements(l)
  \/ send_measurements_post
  \/ \E b \in {None} \cup {Buffer(s) : s \in MeasurementLists} : send_buffer(b)
  \/ send_buffer_post
  \/ \E station_id \in OptStrs, aggregated_on \in Granularities,
        from_timestamp \in Timestamps, to_timestamp \in Timestamps,
        limit \in Limits :
        get_measurements(station_id, aggregated_on, from_timestamp, to_timestamp, limit)

Spec == Init /\ [][Next]_vars

\* ------------------------------------------------------------------ claims
\* The last call ended (returned or raised).
Ended == status \in {"returned", "raised"}

IsMeasurementPost(req) == req.method = "POST" /\ req.url = MEASUREMENTS_URL

HasKey(d, k) == \E p \in d : p[1] = k

\* The items a batch call was given ("for msmt in ..." of either sender).
BatchItems ==
  IF call.op = "send_measurements" THEN call.list_of_measurements.items
  ELSE call.buffer.measurements

IsBatchCall ==
  \/ call.op = "send_measurements" /\ call.list_of_measurements # None
  \/ call.op = "send_buffer" /\ call.buffer # None

\* C1: every POST /measurements the transport has received, from
\* send_measurement, send_measurements or send_buffer, carries a non-null
\* station_id.
C1_PostedMeasurementsHaveStationId ==
  \A i \in 1..Len(log) :
    IsMeasurementPost(log[i].req) => DictGet(log[i].req.data, "station_id") # None

\* The inputs create_station accepts, as the claim lists them.
CreateStationAccepts(c) ==
  /\ c.external_id # None /\ c.name # None /\ c.lat # None /\ c.lon # None
  /\ -180 <= c.lon.v /\ c.lon.v <= 180
  /\ -90 <= c.lat.v /\ c.lat.v <= 90
  /\ (c.alt = None \/ c.alt.v >= 0)

C3_SendMeasurementsAllOrNothing ==
  ( /\ call.op = "send_measurements"
    /\ call.list_of_measurements # None
    /\ \E i \in 1..Len(call.list_of_measurements.items) :
         call.list_of_measurements.items[i].station_id = None ) =>
    status = "raised" /\ error = "AssertionError" /\ log = <<>>

\* C3's case: a valid element precedes the invalid one, and the call has failed.
C3_Witness ==
  /\ call.op = "send_measurements"
  /\ call.list_of_measurements # None
  /\ Len(call.list_of_measurements.items) = 2
  /\ call.list_of_measurements.items[1].station_id # None
  /\ call.list_of_measurements.items[2].station_id = None
  /\ status = "raised"

\* C4: when no transport call of a send_buffer fails, the finished call has
\* returned normally after exactly len(buffer) POST /measurements, the i-th
\* carrying the field map of the i-th buffered measurement; none for an empty
\* buffer.
C4_SendBufferPostsEachInOrder ==
  ( /\ call.op = "send_buffer" /\ call.buffer # None /\ Ended
    /\ \A i \in 1..Len(log) : log[i].raised = "none" ) =>
    /\ status = "returned"
    /\ Len(log) = Len(call.buffer.measurements)
    /\ \A i \in 1..Len(log) :
         /\ IsMeasurementPost(log[i].req)
         /\ log[i].req.data = ToDict(call.buffer.measurements[i])

\* C4's case: a buffer of two different measurements has been sent.
C4_Witness ==
  /\ call.op = "send_buffer" /\ call.buffer # None /\ status = "returned"
  /\ Len(call.buffer.measurements) = 2
  /\ call.buffer.measurements[1] # call.buffer.measurements[2]
  /\ Len(log) = 2

\* C5: in send_measurements and send_buffer the requests issued are at every
\* moment a prefix of the input (item i posted i-th, once); only the last
\* request can have failed, and when it has, the call has raised that same
\* error and no later item is posted.
C5_BatchIssuesPrefixAndHaltsOnError ==
  IsBatchCall =>
    /\ Len(log) <= Len(BatchItems)
    /\ \A i \in 1..Len(log) :
         /\ IsMeasurementPost(log[i].req)
         /\ log[i].req.data = ToDict(BatchItems[i])
         /\ i < Len(log) => log[i].raised = "none"
    /\ (log # <<>> /\ log[Len(log)].raised # "none") =>
         status = "raised" /\ error = log[Len(log)].raised
    /\ status = "raised" =>
         \/ log = <<>> /\ error = "AssertionError"
         \/ log # <<>> /\ error = log[Len(log)].raised /\ error \in TransportErrors

\* C5's case: the first of two items failed, and the second was never posted.
C5_Witness ==
  /\ call.op = "send_measurements" /\ call.list_of_measurements # None
  /\ Len(call.list_of_measurements.items) = 2
  /\ Len(log) = 1 /\ log[1].raised \in TransportErrors
  /\ status = "raised"

\* C6: get_measurements with non-null positive timestamps and
\* to_timestamp < from_timestamp raises and makes no network call, the error
\* being a ValueError when station_id and aggregated_on are given; with
\* to_timestamp = from_timestamp and its other arguments valid it makes exactly
\* one GET /measurements.
C6_GetMeasurementsWindow ==
  ( /\ call.op = "get_measurements"
    /\ call.from_timestamp # None /\ call.to_timestamp # None
    /\ call.from_timestamp.v > 0 /\ call.to_timestamp.v > 0 ) =>
    /\ call.to_timestamp.v < call.from_timestamp.v =>
         /\ status = "raised" /\ log = <<>>
         /\ (call.station_id # None /\ call.aggregated_on # None) =>
              error = "ValueError"
    /\ ( /\ call.to_timestamp.v = call.from_timestamp.v
         /\ call.station_id # None /\ call.aggregated_on # None
         /\ (call.limit = None \/ (IsInstanceInt(call.limit) /\ call.limit.v >= 0)) ) =>
         /\ Len(log) = 1
         /\ log[1].req.method = "GET" /\ log[1].req.url = MEASUREMENTS_URL
         /\ (status = "raised" => error = log[1].raised /\ error \in TransportErrors)

\* C6's case: equal timestamps were accepted and the GET was answered.
C6_Witness ==
  /\ call.op = "get_measurements"
  /\ call.from_timestamp = PyInt(2) /\ call.to_timestamp = PyInt(2)
  /\ status = "returned" /\ Len(log) = 1

\* The URL the claim expects for the station ids of the model.
ExpectedStationUrl(id) ==
  IF id = PyStr("s1") THEN "http://api.openweathermap.org/data/3.0/stations/s1"
  ELSE IF id = PyInt(7) THEN "http://api.openweathermap.org/data/3.0/stations/7"
  ELSE "unexpected"

\* C7: update_station and delete_station with a Station whose id is null fail
\* with an assertion error and issue no request; with a non-null id each
\* issues exactly one request, a PUT respectively a DELETE, to /stations/{id}
\* for that id.
C7_UpdateDeleteNeedId ==
  call.op \in {"update_station", "delete_station"} =>
    /\ Ended
    /\ call.station.id = None =>
         status = "raised" /\ error = "AssertionError" /\ log = <<>>
    /\ call.station.id # None =>
         /\ Len(log) = 1
         /\ log[1].req.method = (IF call.op = "update_station" THEN "PUT" ELSE "DELETE")
         /\ log[1].req.url = ExpectedStationUrl(call.station.id)

\* C7's case: an update of a station without id has failed.
C7_Witness ==
  /\ call.op = "update_station" /\ call.station.id = None /\ status = "raised"

\* C8: constructing the manager with a null API key fails with an assertion
\* error and yields no manager; a manager holds the key it was constructed
\* with, which is not null, and every request it issues carries that key as
\* its appid parameter.
C8_CredentialRequiredAndCarried ==
  /\ (call.op = "__init__" /\ call.API_key = None) =>
       status = "raised" /\ error = "AssertionError" /\ ~manager
  /\ manager => API_key = given /\ given # None
  /\ \A i \in 1..Len(log) :
       /\ HasKey(log[i].req.params, "appid")
       /\ DictGet(log[i].req.params, "appid") = given
       /\ given # None

\* C8's case: a manager built with the second key has issued a request.
C8_Witness ==
  manager /\ given = PyStr("key2") /\ log # <<>>

\* C9: a get_stations that returned made exactly one GET /stations, and its
\* result has one element per item of the response list, the i-th being the
\* Station parser's result for the i-th item; an empty response gives an empty
\* result.
C9_GetStationsParsesEachInOrder ==
  (call.op = "get_stations" /\ status = "returned") =>
    /\ Len(log) = 1
    /\ log[1].req.method = "GET" /\ log[1].req.url = STATIONS_URL
    /\ Len(result.items) = Len(log[1].body.items)
    /\ \A i \in 1..Len(result.items) :
         result.items[i] = StationParseDict(log[1].body.items[i])

\* C9's case: a response of two different items has been parsed.
C9_Witness ==
  /\ call.op = "get_stations" /\ status = "returned"
  /\ Len(log[1].body.items) = 2
  /\ log[1].body.items[1] # log[1].body.items[2]

\* The inputs for which C10 says get_measurements raises.
C10_ListedRaise(c) ==
  \/ c.station_id = None \/ c.aggregated_on = None
  \/ c.from_timestamp = None \/ c.to_timestamp = None
  \/ ~(c.from_timestamp.v > 0) \/ ~(c.to_timestamp.v > 0)
  \/ (c.limit # None /\ (~IsInstanceInt(c.limit) \/ c.limit.v < 0))

\* What C10 says of the single GET of get_measurements.
C10_SingleGet(c) ==
  /\ Len(log) = 1
  /\ log[1].req.method = "GET" /\ log[1].req.url = MEASUREMENTS_URL
  /\ DictGet(log[1].req.params, "station_id") = c.station_id
  /\ DictGet(log[1].req.params, "type") = c.aggregated_on
  /\ DictGet(log[1].req.params, "from") = c.from_timestamp
  /\ DictGet(log[1].req.params, "to") = c.to_timestamp
  /\ HasKey(log[1].req.params, "limit") <=> c.limit # None
  /\ c.limit # None => DictGet(log[1].req.params, "limit") = c.limit

\* C10 as stated: get_measurements raises before any network call whenever
\* station_id, aggregated_on or a timestamp is null, a timestamp is not > 0,
\* or a supplied limit is not an integer or is negative; otherwise its single
\* GET carries station_id, type, from and to, and limit exactly when supplied.
C10_Original ==
  call.op = "get_measurements" =>
    /\ C10_ListedRaise(call) => status = "raised" /\ log = <<>>
    /\ ~C10_ListedRaise(call) => C10_SingleGet(call)

\* C10 amended: as C10, with to_timestamp < from_timestamp among the inputs
\* for which get_measurements raises before any network call.
C10_GetMeasurementsValidatesThenQueries ==
  call.op = "get_measurements" =>
    LET raises == \/ C10_ListedRaise(call)
                  \/ call.to_timestamp.v < call.from_timestamp.v
    IN /\ raises => status = "raised" /\ log = <<>>
       /\ ~raises => C10_SingleGet(call)

\* C10's case: limit 0 was supplied and sent as limit 0.
C10_Witness ==
  /\ call.op = "get_measurements" /\ call.limit = PyInt(0)
  /\ Len(log) = 1
  /\ DictGet(log[1].req.params, "limit") = PyInt(0)
====
